---- MODULE Spec2Model ----
(***************************************************************************)
(* Media-exchange cycle engine of the chemostat controller:                *)
(* MediaExchangeController (src/src/media_controller.py) driving the       *)
(* SystemInfoManager / CycleData (src/src/system_status.py) and the        *)
(* DeviceManager (src/src/device_manager.py) from the driver loop of       *)
(* main.py.                                                                *)
(*                                                                         *)
(* Units.  The clock `now` counts ticks; every datetime.datetime.now() of  *)
(* the source reads it.  Volumes are counted in units for which the pump   *)
(* rates are small integers.  A quotient volume / rate of the source is    *)
(* never formed: a comparison  t < volume / rate  is evaluated as          *)
(* t * rate < volume, which is the same comparison over the rationals.     *)
(***************************************************************************)
EXTENDS Integers, FiniteSets, Sequences, TLC

(* ---- bounds of the model -------------------------------------------- *)
\* last tick of the clock
MaxTime == 11
\* ticks in one hour (the source: 60 minutes)
TicksPerHour == 3

(* ---- program constants (src/src/global_constants.py) ----------------- *)
\* In the model's units.  The source's values are 3.4 and 3.4 mL/s,
\* 999.99 mL, 550 mL (or None), 0.05 or 0.1 volumes per hour, 0.5 or 1
\* cycles per hour and a first-cycle delay of 10 hours.
MEDIA_IN_FLOWRATE == 2
MEDIA_OUT_FLOWRATE == 2
REACTOR_MAX_VOLUME == 6
REACTOR_VOLUME == 4
MEDIA_FLOW_RATE == 1
CYCLES_PER_HOUR == 1
FIRST_CYCLE_DELAY == 1
DELAY_FIRST_CYCLE == TRUE

\* SystemInfoManager.__init__: _last_temp, _min_temp, _max_temp
INIT_LAST_TEMP == 0
INIT_MIN_TEMP == 100
INIT_MAX_TEMP == 0
\* global_constants.py
OFF_PI_DEFAULT_TEMP == 23
TARGET_TEMP == 33
SHUTDOWN_TEMP == 40

\* Python's None for a float / datetime attribute
None == 0 - 1

VARIABLES
    now,                  \* the wall clock
    pc,                   \* position of the single driver thread
    volume,               \* MediaExchangeController.__init__: volume
    \* SystemInfoManager
    system_state, error_description, error_time,
    total_media_in, total_media_out, next_cycle, reactor_volume,
    water_level_exceeded,
    observers_notified,   \* no mutator has run since the last notify_observers
    \* CycleData
    cd_target, cd_inlet_ontime, cd_outlet_ontime, cd_state,
    \* MediaExchangeController
    scheduled,            \* the schedule attributes exist
    next_cycle_time, next_next_cycle_time, time_between_cycles,
    flow_per_cycle,
    \* DeviceManager
    inlet_on, media_in_pump_ontime, media_in_pump_start_time,
    outlet_on, media_out_pump_ontime, media_out_pump_start_time,
    air_pump_on, hotplate_on,
    heating_enabled,      \* HEATING_ENABLED, fixed at start-up
    \* SystemInfoManager._active_devices
    active_devices,
    timed_threads,        \* threads started by Device._on_for / _off_for
    \* SystemInfoManager: temperature statistics
    last_temp, min_temp, max_temp,
    temp_notified,        \* a temperature notification has been processed
    \* locals of the running method
    do_cycle_delay, start_time, org_runtime, calib_start_time,
    wl_seen               \* the loop condition's wl_exceeded() returned True

siVars == <<system_state, error_description, error_time, total_media_in,
            total_media_out, next_cycle, reactor_volume,
            water_level_exceeded>>
errVars == <<system_state, error_description, error_time>>
totVars == <<total_media_in, total_media_out>>
cdVars == <<cd_target, cd_inlet_ontime, cd_outlet_ontime, cd_state>>
mcVars == <<scheduled, next_cycle_time, next_next_cycle_time,
            time_between_cycles, flow_per_cycle>>
inVars == <<inlet_on, media_in_pump_ontime, media_in_pump_start_time>>
outVars == <<outlet_on, media_out_pump_ontime, media_out_pump_start_time>>
peerVars == <<air_pump_on, hotplate_on, heating_enabled>>
locVars == <<do_cycle_delay, start_time, org_runtime, calib_start_time, wl_seen>>
devVars == <<active_devices, timed_threads>>
tempVars == <<last_temp, min_temp, max_temp, temp_notified>>
vars == <<now, pc, volume, siVars, observers_notified, cdVars, mcVars,
          inVars, outVars, peerVars, locVars,
          devVars, tempVars>>

(* ---- error descriptions --------------------------------------------- *)
NoError == "No recorded error."
ErrAtSensor == "Media already at sensor during filling procedure."
ErrVesselFilled == "Vessel filled without triggering waterlevel sensor."
ErrMissed == "Fill cycle missed."
ErrAfterRemoval == "Water level exceeded even after media removal."
ErrCalib == "Calibration Failed, Water level not reached."

(* ---- CycleData ------------------------------------------------------- *)
get_in_vol(inlet_ontime) == MEDIA_IN_FLOWRATE * inlet_ontime
get_out_vol(outlet_ontime) == MEDIA_OUT_FLOWRATE * outlet_ontime

\* CycleData.__init__ that leaves the state of the previous cycle
MutCycleDataInit(target) ==
    /\ cd_target' = target
    /\ cd_inlet_ontime' = 0
    /\ cd_outlet_ontime' = 0
    /\ UNCHANGED cd_state
\* CycleData.__init__(target_exchange_vol)
CycleDataInit(target) ==
    /\ cd_target' = target
    /\ cd_inlet_ontime' = 0
    /\ cd_outlet_ontime' = 0
    /\ cd_state' = "start"

(* ---- SystemInfoManager ---------------------------------------------- *)
\* _in_error_state: logs and returns False in 'error', falls off the end
\* (None) otherwise
p_in_error_state(state) == IF state = "error" THEN "False" ELSE "None"
\* Python truth value of what _in_error_state returns
Truthy(v) == v = "True"

\* begin_media_cycle without its assignment
MutBeginMediaCycle(state) == state
begin_media_cycle(state) ==
    IF ~Truthy(p_in_error_state(state)) THEN "media_exchange" ELSE state
\* end_media_cycle with its guard inverted
MutEndMediaCycle(state) ==
    IF Truthy(p_in_error_state(state)) THEN "standby" ELSE state
end_media_cycle(state) ==
    IF ~Truthy(p_in_error_state(state)) THEN "standby" ELSE state

set_error_state(description) ==
    /\ system_state' = "error"
    /\ error_description' = description
    /\ error_time' = now

\* update_dispensed_volumes adding the on-time instead of the volume
MutDispensedIn(total, inlet_ontime) == total + inlet_ontime
\* update_dispensed_volumes: the two sums
dispensed_in(total, inlet_ontime) == total + get_in_vol(inlet_ontime)
\* update_dispensed_volumes taking the out-volume off its total
MutDispensedOut(total, outlet_ontime) == total - get_out_vol(outlet_ontime)
dispensed_out(total, outlet_ontime) == total + get_out_vol(outlet_ontime)

(* ---- Observable: the presenters observing the SystemInfoManager ------ *)
\* set_error_state and notify end by calling notify_observers; the other
\* mutators (begin_media_cycle, end_media_cycle, set_next_cycle,
\* set_reactor_volume, update_dispensed_volumes) return without it
publishes(method) ==
    method \in {"set_error_state", "notify", "notify_observers"}

\* whether the observers have been notified of the latest mutation after
\* the calls `calls` have been made on the SystemInfoManager, in order
RECURSIVE ObserversAfter(_, _)
ObserversAfter(calls, notified) ==
    IF calls = <<>> THEN notified
    ELSE ObserversAfter(Tail(calls), publishes(Head(calls)))

(* ---- Device ---------------------------------------------------------- *)
\* is_on() after on() and after off().  The Device class that
\* device_manager.py constructs (observers passed to IndicatorLED) is not
\* the one of src/src/device.py, whose on() and off() never assign _is_on;
\* the contract "on(), off(), is_on() -> bool" is taken instead.
Device_on(is_on) == TRUE
Device_off(is_on) == FALSE

(* ---- DeviceManager --------------------------------------------------- *)
get_inlet_ontime ==
    IF inlet_on THEN media_in_pump_ontime + (now - media_in_pump_start_time)
    ELSE media_in_pump_ontime
get_outlet_ontime ==
    IF outlet_on THEN media_out_pump_ontime + (now - media_out_pump_start_time)
    ELSE media_out_pump_ontime

turn_on_inlet ==
    /\ media_in_pump_start_time' =
          IF ~inlet_on THEN now ELSE media_in_pump_start_time
    /\ inlet_on' = Device_on(inlet_on)
    /\ UNCHANGED media_in_pump_ontime
\* turn_off_inlet without its call of off()
MutTurnOffInlet ==
    /\ media_in_pump_ontime' =
          media_in_pump_ontime + (now - media_in_pump_start_time)
    /\ UNCHANGED <<inlet_on, media_in_pump_start_time>>
turn_off_inlet ==
    /\ media_in_pump_ontime' =
          media_in_pump_ontime + (now - media_in_pump_start_time)
    /\ inlet_on' = Device_off(inlet_on)
    /\ UNCHANGED media_in_pump_start_time
turn_on_outlet ==
    /\ media_out_pump_start_time' =
          IF ~outlet_on THEN now ELSE media_out_pump_start_time
    /\ outlet_on' = Device_on(outlet_on)
    /\ UNCHANGED media_out_pump_ontime
\* turn_off_outlet without its call of off()
MutTurnOffOutlet ==
    /\ media_out_pump_ontime' =
          media_out_pump_ontime + (now - media_out_pump_start_time)
    /\ UNCHANGED <<outlet_on, media_out_pump_start_time>>
turn_off_outlet ==
    /\ media_out_pump_ontime' =
          media_out_pump_ontime + (now - media_out_pump_start_time)
    /\ outlet_on' = Device_off(outlet_on)
    /\ UNCHANGED media_out_pump_start_time

\* turn_off_hotplate, turn_on_air_pump, turn_off_air_pump: is_on() of the
\* device afterwards
turn_off_hotplate(is_on) == Device_off(is_on)
\* turn_on_air_pump without its call of on()
MutTurnOnAirPump(is_on) == is_on
turn_on_air_pump(is_on) == Device_on(is_on)
turn_off_air_pump(is_on) == Device_off(is_on)

(* ---- switching a device, and what the Status Aggregator hears -------- *)
\* the device a DeviceManager method switches, and the direction
DeviceOf(method) ==
    CASE method \in {"turn_on_hotplate", "turn_off_hotplate"} -> "hotplate"
      [] method \in {"turn_on_inlet", "turn_off_inlet"} -> "media_in_pump"
      [] method \in {"turn_on_outlet", "turn_off_outlet"} -> "media_out_pump"
      [] method \in {"turn_on_air_pump", "turn_off_air_pump"} -> "air_pump"
TurnsOn(method) ==
    method \in {"turn_on_hotplate", "turn_on_inlet", "turn_on_outlet",
                "turn_on_air_pump"}

\* the seconds argument a DeviceManager method passes to Device.on / off
MutSecondsArg(method) ==
    IF method = "turn_on_outlet" THEN flow_per_cycle ELSE None
seconds_arg(method) == None

\* Device.on / Device.off, `if seconds:`: a truthy argument hands the
\* switch to a background thread (_on_for / _off_for)
timed(seconds) == seconds # None /\ seconds # 0

\* list.remove: the first occurrence goes
RemoveFirst(active, device) ==
    LET i == CHOOSE k \in DOMAIN active :
                 /\ active[k] = device
                 /\ \A j \in 1..(k - 1) : active[j] # device
    IN  SubSeq(active, 1, i - 1) \o SubSeq(active, i + 1, Len(active))

\* SystemInfoManager._notify_device
MutNotifyDevice(active, device, is_on) ==
    IF is_on /\ ~(\E i \in DOMAIN active : active[i] = device)
    THEN Append(active, device)
    ELSE active
notify_device(active, device, is_on) ==
    LET present == \E i \in DOMAIN active : active[i] = device
    IN  IF is_on
        THEN IF present THEN active ELSE Append(active, device)
        ELSE IF ~present THEN active ELSE RemoveFirst(active, device)

\* the active-device list after the driver thread made these DeviceManager
\* calls in this order: an untimed on() / off() switches the pin and
\* notifies its observers before it returns
RECURSIVE DevicesAfter(_, _)
DevicesAfter(calls, active) ==
    IF calls = <<>> THEN active
    ELSE LET m == Head(calls)
             was_on == \E i \in DOMAIN active : active[i] = DeviceOf(m)
             is_on == IF TurnsOn(m) THEN Device_on(was_on)
                      ELSE Device_off(was_on)
         IN  DevicesAfter(Tail(calls),
                IF timed(seconds_arg(m)) THEN active
                ELSE notify_device(active, DeviceOf(m), is_on))

\* the number of background threads after these calls
ThreadsAfter(calls, n) ==
    n + Cardinality({i \in DOMAIN calls : timed(seconds_arg(calls[i]))})

DeviceCalls(calls) ==
    /\ active_devices' = DevicesAfter(calls, active_devices)
    /\ timed_threads' = ThreadsAfter(calls, timed_threads)

(* ---- comparisons against volume / rate ------------------------------- *)
\* a loop condition that has lost its bound on the on-time
MutBefore(t, vol, rate) == TRUE
\* t < vol / rate
Before(t, vol, rate) == t * rate < vol
\* t > vol / rate
After(t, vol, rate) == t * rate > vol

(* ---- initial state: the Builder has built sys_info, dm and sm -------- *)
\* __init__, line 63: do_cycle_delay = DELAY_FIRST_CYCLE.  A reactor that
\* is to be filled is started under either setting; a reactor of configured
\* volume under the setting of global_constants.py.
DelaySettings(vol) ==
    IF vol = None THEN BOOLEAN ELSE {DELAY_FIRST_CYCLE}

Init ==
    /\ now = 0
    /\ pc = "ctor"
    /\ volume \in {None, REACTOR_VOLUME}
    /\ system_state = "standby"
    /\ error_description = NoError
    /\ error_time = None
    /\ total_media_in = 0
    /\ total_media_out = 0
    /\ next_cycle = 0
    /\ reactor_volume = volume
    /\ water_level_exceeded = FALSE
    /\ observers_notified = TRUE
    /\ cd_target = 0
    /\ cd_inlet_ontime = 0
    /\ cd_outlet_ontime = 0
    /\ cd_state = "start"
    /\ scheduled = FALSE
    /\ next_cycle_time = None
    /\ next_next_cycle_time = None
    /\ time_between_cycles = None
    /\ flow_per_cycle = None
    /\ inlet_on = FALSE
    /\ media_in_pump_ontime = 0
    /\ media_in_pump_start_time = 0
    /\ outlet_on = FALSE
    /\ media_out_pump_ontime = 0
    /\ media_out_pump_start_time = 0
    /\ air_pump_on = FALSE
    /\ hotplate_on = FALSE
    /\ heating_enabled \in BOOLEAN
    /\ active_devices = <<>>
    /\ timed_threads = 0
    /\ last_temp = INIT_LAST_TEMP
    /\ min_temp = INIT_MIN_TEMP
    /\ max_temp = INIT_MAX_TEMP
    /\ temp_notified = FALSE
    /\ do_cycle_delay \in DelaySettings(volume)
    /\ start_time = 0
    /\ org_runtime = 0
    /\ calib_start_time = 0
    /\ wl_seen = FALSE

\* Positions at which the clock is seen to advance: the sleep of main's
\* loop, the sleep of each polling loop, and the exit of each polling
\* loop, where the sensor read, its logging and the observers' rendering
\* separate the loop condition's clock read from the pump's switch-off.
SleepPcs == {"main", "fr_loop", "rm_loop", "am_loop", "cal_loop"}
LoopExitPcs == {"fr_off", "rm_off", "am_off", "cal_off"}

\* time passes
Tick ==
    /\ pc \in SleepPcs \cup LoopExitPcs
    /\ UNCHANGED observers_notified
    /\ now < MaxTime
    /\ now' = now + 1
    /\ UNCHANGED <<pc, volume, siVars, cdVars, mcVars, inVars, outVars,
                   peerVars, locVars>>
    /\ UNCHANGED devVars
    /\ UNCHANGED tempVars

\* WaterLevelSensor.get_reading: the pin is read and the reading is passed
\* to SystemInfoManager.notify -> _notify_sensor
ReadWaterLevel(s) == water_level_exceeded' = s

\* update_dispensed_volumes on a Cycle Record whose state is 'done'
UpdateDispensedVolumes ==
    /\ total_media_in' = dispensed_in(total_media_in, cd_inlet_ontime)
    /\ total_media_out' = dispensed_out(total_media_out, cd_outlet_ontime)
    /\ cd_state' = "inactive"

(* ---- MediaExchangeController.__init__ -------------------------------- *)
Ctor ==
    /\ pc = "ctor"
    /\ UNCHANGED observers_notified
    /\ pc' = IF volume = None THEN "fr_check" ELSE "ctor_sched"
    /\ UNCHANGED <<now, volume, siVars, cdVars, mcVars, inVars, outVars,
                   peerVars, locVars>>
    /\ UNCHANGED devVars
    /\ UNCHANGED tempVars

\* _fill_reactor, lines 103-107: the sensor is read before the fill
FillCheck ==
    /\ pc = "fr_check"
    /\ \E s \in BOOLEAN :
          /\ ReadWaterLevel(s)
          /\ IF s THEN set_error_state(ErrAtSensor) ELSE UNCHANGED errVars
    /\ pc' = "fr_begin"
    /\ UNCHANGED <<now, volume, totVars, next_cycle, reactor_volume, cdVars,
                   mcVars, inVars, outVars, peerVars, locVars>>
    /\ observers_notified' =
          ObserversAfter(
             IF water_level_exceeded' THEN <<"notify", "set_error_state">>
             ELSE <<"notify">>,
             observers_notified)
    /\ UNCHANGED devVars
    /\ UNCHANGED tempVars

\* lines 109-111
FillBegin ==
    /\ pc = "fr_begin"
    /\ CycleDataInit(REACTOR_MAX_VOLUME)
    /\ system_state' = begin_media_cycle(system_state)
    /\ pc' = "fr_on"
    /\ UNCHANGED <<now, volume, error_description, error_time, totVars,
                   next_cycle, reactor_volume, water_level_exceeded, mcVars,
                   inVars, outVars, peerVars, locVars>>
    /\ observers_notified' =
          ObserversAfter(
             <<"begin_media_cycle", "notify_observers">>,
             observers_notified)
    /\ UNCHANGED devVars
    /\ UNCHANGED tempVars

\* lines 118-120
FillOn ==
    /\ pc = "fr_on"
    /\ start_time' = get_inlet_ontime
    /\ cd_state' = "fill"
    /\ turn_on_inlet
    /\ wl_seen' = FALSE
    /\ pc' = "fr_loop"
    /\ UNCHANGED <<now, volume, siVars, cd_target, cd_inlet_ontime,
                   cd_outlet_ontime, mcVars, outVars, peerVars,
                   do_cycle_delay, org_runtime, calib_start_time>>
    /\ observers_notified' =
          ObserversAfter(
             <<"notify">>,
             observers_notified)
    /\ DeviceCalls(
          <<"turn_on_inlet">>)
    /\ UNCHANGED tempVars

\* lines 122-126: one evaluation of the loop condition, and the body
FillPoll ==
    /\ pc = "fr_loop"
    /\ IF Before(get_inlet_ontime - start_time, REACTOR_MAX_VOLUME,
                 MEDIA_IN_FLOWRATE)
       THEN \E s \in BOOLEAN :
              /\ ReadWaterLevel(s)
              /\ wl_seen' = s
              /\ pc' = IF s THEN "fr_off" ELSE "fr_loop"
              /\ cd_inlet_ontime' =
                    IF s THEN cd_inlet_ontime
                    ELSE get_inlet_ontime - start_time
       ELSE /\ pc' = "fr_off"
            /\ UNCHANGED <<water_level_exceeded, wl_seen, cd_inlet_ontime>>
    /\ UNCHANGED <<now, volume, errVars, totVars, next_cycle, reactor_volume,
                   cd_target, cd_outlet_ontime, cd_state, mcVars, inVars,
                   outVars, peerVars, do_cycle_delay, start_time, org_runtime,
                   calib_start_time>>
    /\ observers_notified' =
          ObserversAfter(
             IF pc' = "fr_loop" THEN <<"notify", "notify_observers">>
             ELSE IF wl_seen' THEN <<"notify">> ELSE <<>>,
             observers_notified)
    /\ UNCHANGED devVars
    /\ UNCHANGED tempVars

\* lines 128-135
FillOff ==
    /\ pc = "fr_off"
    /\ turn_off_inlet
    /\ IF After(media_in_pump_ontime' - start_time, REACTOR_MAX_VOLUME,
                MEDIA_IN_FLOWRATE)
       THEN /\ set_error_state(ErrVesselFilled)
            /\ pc' = "build"
       ELSE /\ UNCHANGED errVars
            /\ pc' = "fr_done"
    /\ UNCHANGED <<now, volume, totVars, next_cycle, reactor_volume,
                   water_level_exceeded, cdVars, mcVars, outVars, peerVars,
                   locVars>>
    /\ observers_notified' =
          ObserversAfter(
             IF pc' = "build" THEN <<"notify", "set_error_state">>
             ELSE <<"notify">>,
             observers_notified)
    /\ DeviceCalls(
          <<"turn_off_inlet">>)
    /\ UNCHANGED tempVars

\* _fill_reactor without the assignment of line 137
MutFillDone ==
    /\ pc = "fr_done"
    /\ pc' = "fr_fold"
    /\ UNCHANGED <<now, volume, siVars, cdVars, mcVars, inVars, outVars,
                   peerVars, locVars>>
    /\ observers_notified' =
          ObserversAfter(
             <<"notify_observers">>,
             observers_notified)
    /\ UNCHANGED devVars
    /\ UNCHANGED tempVars
\* line 137
FillDone ==
    /\ pc = "fr_done"
    /\ cd_state' = "done"
    /\ pc' = "fr_fold"
    /\ UNCHANGED <<now, volume, siVars, cd_target, cd_inlet_ontime,
                   cd_outlet_ontime, mcVars, inVars, outVars, peerVars,
                   locVars>>
    /\ observers_notified' =
          ObserversAfter(
             <<"notify_observers">>,
             observers_notified)
    /\ UNCHANGED devVars
    /\ UNCHANGED tempVars

\* __init__ without line 68
MutCycleDelayAfterFill(delay) == delay
\* __init__, line 68: a reactor that was filled waits for its first cycle
cycle_delay_after_fill(delay) == TRUE

\* lines 145-148, and lines 65-68 of __init__
FillFold ==
    /\ pc = "fr_fold"
    /\ cd_state = "done"
    /\ UpdateDispensedVolumes
    /\ system_state' = end_media_cycle(system_state)
    /\ volume' = get_in_vol(cd_inlet_ontime)
    /\ do_cycle_delay' = cycle_delay_after_fill(do_cycle_delay)
    /\ pc' = "ctor_sched"
    /\ UNCHANGED <<now, error_description, error_time, next_cycle,
                   reactor_volume, water_level_exceeded, cd_target,
                   cd_inlet_ontime, cd_outlet_ontime, mcVars, inVars, outVars,
                   peerVars, start_time, org_runtime, calib_start_time,
                   wl_seen>>
    /\ observers_notified' =
          ObserversAfter(
             <<"update_dispensed_volumes", "end_media_cycle">>,
             observers_notified)
    /\ UNCHANGED devVars
    /\ UNCHANGED tempVars

\* _iterate_cycles skipping a due time
MutIterateTwice(nnext, between) ==
    [next |-> nnext + between, nnext |-> nnext + between + between]
\* _iterate_cycles without the added interval
MutIterateCycles(nnext, between) == [next |-> nnext, nnext |-> nnext]
\* _iterate_cycles: the new (next_cycle_time, next_next_cycle_time)
iterate_cycles(nnext, between) ==
    [next |-> nnext, nnext |-> nnext + between]

\* __init__, lines 70-97
CtorSched ==
    /\ pc = "ctor_sched"
    /\ reactor_volume' = volume
    /\ flow_per_cycle' = (volume * MEDIA_FLOW_RATE) \div CYCLES_PER_HOUR
    /\ time_between_cycles' = TicksPerHour \div CYCLES_PER_HOUR
    /\ next_cycle_time' =
          IF do_cycle_delay
          THEN now + time_between_cycles' + FIRST_CYCLE_DELAY
          ELSE now
    /\ next_next_cycle_time' = next_cycle_time' + time_between_cycles'
    /\ next_cycle' = next_cycle_time'
    /\ scheduled' = TRUE
    /\ pc' = "build"
    /\ UNCHANGED <<now, volume, errVars, totVars, water_level_exceeded,
                   cdVars, inVars, outVars, peerVars, locVars>>
    /\ observers_notified' =
          ObserversAfter(
             <<"set_reactor_volume", "set_next_cycle">>,
             observers_notified)
    /\ UNCHANGED devVars
    /\ UNCHANGED tempVars

\* Builder.__init__ after the media controller: BubblerController.__init__
\* turns the air pump on, ThermalRegulationController.__init__ turns the
\* hotplate on when heating is disabled
BuildPeers ==
    /\ pc = "build"
    /\ air_pump_on' = turn_on_air_pump(air_pump_on)
    /\ hotplate_on' = IF ~heating_enabled THEN TRUE ELSE hotplate_on
    /\ pc' = "main"
    /\ UNCHANGED <<now, volume, siVars, cdVars, mcVars, inVars, outVars,
                   heating_enabled, locVars>>
    /\ observers_notified' =
          ObserversAfter(
             <<"notify">>,
             observers_notified)
    /\ DeviceCalls(
          <<"turn_on_air_pump">> \o
          (IF ~heating_enabled THEN <<"turn_on_hotplate">> ELSE <<>>))
    /\ UNCHANGED tempVars

(* ---- cycle_check ------------------------------------------------------ *)
\* the deadline test made at the deadline itself as well
MutDeadlineMissed(nnext, t) == nnext <= t
\* line 158: the second due time has passed
deadline_missed(nnext, t) == nnext < t

\* lines 158-162
CheckMissed ==
    /\ pc = "main"
    /\ scheduled
    /\ IF deadline_missed(next_next_cycle_time, now)
       THEN set_error_state(ErrMissed)
       ELSE UNCHANGED errVars
    /\ pc' = "cc_due"
    /\ UNCHANGED <<now, volume, totVars, next_cycle, reactor_volume,
                   water_level_exceeded, cdVars, mcVars, inVars, outVars,
                   peerVars, locVars>>
    /\ observers_notified' =
          ObserversAfter(
             IF deadline_missed(next_next_cycle_time, now)
             THEN <<"set_error_state">> ELSE <<>>,
             observers_notified)
    /\ UNCHANGED devVars
    /\ UNCHANGED tempVars

\* line 158 when __init__ returned at line 67: the schedule attributes were
\* never set, the AttributeError ends main's loop
CheckUnscheduled ==
    /\ pc = "main"
    /\ UNCHANGED observers_notified
    /\ ~scheduled
    /\ pc' = "crashed"
    /\ UNCHANGED <<now, volume, siVars, cdVars, mcVars, inVars, outVars,
                   peerVars, locVars>>
    /\ UNCHANGED devVars
    /\ UNCHANGED tempVars

\* cycle_check without its test of the error state
MutCycleAllowed(state) == TRUE
\* lines 169-171: a due cycle is run unless the state is 'error'
cycle_allowed(state) == state # "error"

\* cycle_check running a cycle at the very instant it is due
MutCycleDue(next, t) == next <= t
\* line 165: the first due time has passed
cycle_due(next, t) == next < t

\* lines 164-171
CheckDue ==
    /\ pc = "cc_due"
    /\ IF cycle_due(next_cycle_time, now)
       THEN LET it == iterate_cycles(next_next_cycle_time, time_between_cycles)
            IN  /\ next_cycle_time' = it.next
                /\ next_next_cycle_time' = it.nnext
                /\ next_cycle' = it.next
                /\ pc' = IF cycle_allowed(system_state) THEN "cc_begin"
                         ELSE "rest"
       ELSE /\ UNCHANGED <<next_cycle_time, next_next_cycle_time, next_cycle>>
            /\ pc' = "rest"
    /\ UNCHANGED <<now, volume, errVars, totVars, reactor_volume,
                   water_level_exceeded, cdVars, scheduled,
                   time_between_cycles, flow_per_cycle, inVars, outVars,
                   peerVars, locVars>>
    /\ observers_notified' =
          ObserversAfter(
             IF cycle_due(next_cycle_time, now) THEN <<"set_next_cycle">> ELSE <<>>,
             observers_notified)
    /\ UNCHANGED devVars
    /\ UNCHANGED tempVars

\* a cycle_check that sizes the cycle it starts by what the last one added
MutCycleBegin ==
    /\ pc = "cc_begin"
    /\ CycleDataInit(flow_per_cycle)
    /\ system_state' = begin_media_cycle(system_state)
    /\ flow_per_cycle' = get_in_vol(cd_inlet_ontime)
    /\ pc' = "fc_start"
    /\ UNCHANGED <<now, volume, error_description, error_time, totVars,
                   next_cycle, reactor_volume, water_level_exceeded,
                   scheduled, next_cycle_time, next_next_cycle_time,
                   time_between_cycles, inVars, outVars, peerVars, locVars>>
    /\ observers_notified' =
          ObserversAfter(
             <<"begin_media_cycle", "notify_observers">>,
             observers_notified)
    /\ UNCHANGED devVars
    /\ UNCHANGED tempVars
\* lines 174-176
CycleBegin ==
    /\ pc = "cc_begin"
    /\ CycleDataInit(flow_per_cycle)
    /\ system_state' = begin_media_cycle(system_state)
    /\ pc' = "fc_start"
    /\ UNCHANGED <<now, volume, error_description, error_time, totVars,
                   next_cycle, reactor_volume, water_level_exceeded, mcVars,
                   inVars, outVars, peerVars, locVars>>
    /\ observers_notified' =
          ObserversAfter(
             <<"begin_media_cycle", "notify_observers">>,
             observers_notified)
    /\ UNCHANGED devVars
    /\ UNCHANGED tempVars

(* ---- flow_cycle ------------------------------------------------------- *)
\* lines 197-207: the level is read for the log, stirring and aeration stop
FlowStart ==
    /\ pc = "fc_start"
    /\ \E s \in BOOLEAN : ReadWaterLevel(s)
    /\ hotplate_on' = turn_off_hotplate(hotplate_on)
    /\ air_pump_on' = turn_off_air_pump(air_pump_on)
    /\ pc' = "rm_on"
    /\ UNCHANGED <<now, volume, errVars, totVars, next_cycle, reactor_volume,
                   cdVars, mcVars, inVars, outVars, heating_enabled, locVars>>
    /\ observers_notified' =
          ObserversAfter(
             <<"notify">>,
             observers_notified)
    /\ DeviceCalls(
          (IF hotplate_on THEN <<"turn_off_hotplate">> ELSE <<>>) \o
          (IF air_pump_on THEN <<"turn_off_air_pump">> ELSE <<>>))
    /\ UNCHANGED tempVars

\* _remove_media, lines 246-249
RemoveOn ==
    /\ pc = "rm_on"
    /\ cd_state' = "drain"
    /\ start_time' = get_outlet_ontime
    /\ turn_on_outlet
    /\ air_pump_on' = turn_on_air_pump(air_pump_on)
    /\ pc' = "rm_loop"
    /\ UNCHANGED <<now, volume, siVars, cd_target, cd_inlet_ontime,
                   cd_outlet_ontime, mcVars, inVars, hotplate_on,
                   heating_enabled, do_cycle_delay, org_runtime,
                   calib_start_time, wl_seen>>
    /\ observers_notified' =
          ObserversAfter(
             <<"notify">>,
             observers_notified)
    /\ DeviceCalls(
          <<"turn_on_outlet", "turn_on_air_pump">>)
    /\ UNCHANGED tempVars

\* lines 253-257
RemovePoll ==
    /\ pc = "rm_loop"
    /\ IF Before(get_outlet_ontime - start_time, flow_per_cycle,
                 MEDIA_OUT_FLOWRATE)
       THEN /\ \E s \in BOOLEAN : ReadWaterLevel(s)
            /\ cd_outlet_ontime' = get_outlet_ontime - start_time
            /\ pc' = "rm_loop"
       ELSE /\ UNCHANGED <<water_level_exceeded, cd_outlet_ontime>>
            /\ pc' = "rm_off"
    /\ UNCHANGED <<now, volume, errVars, totVars, next_cycle, reactor_volume,
                   cd_target, cd_inlet_ontime, cd_state, mcVars, inVars,
                   outVars, peerVars, locVars>>
    /\ observers_notified' =
          ObserversAfter(
             IF pc' = "rm_loop" THEN <<"notify", "notify_observers">>
             ELSE <<>>,
             observers_notified)
    /\ UNCHANGED devVars
    /\ UNCHANGED tempVars

\* lines 259-263
RemoveOff ==
    /\ pc = "rm_off"
    /\ turn_off_outlet
    /\ air_pump_on' = turn_off_air_pump(air_pump_on)
    /\ \E s \in BOOLEAN : ReadWaterLevel(s)
    /\ pc' = "rm_post"
    /\ UNCHANGED <<now, volume, errVars, totVars, next_cycle, reactor_volume,
                   cdVars, mcVars, inVars, hotplate_on, heating_enabled,
                   locVars>>
    /\ observers_notified' =
          ObserversAfter(
             <<"notify">>,
             observers_notified)
    /\ DeviceCalls(
          <<"turn_off_outlet", "turn_off_air_pump">>)
    /\ UNCHANGED tempVars

\* _remove_media without its check of the level after the drain
MutRemoveMediaResult(exceeded) == TRUE
\* what _remove_media returns for the reading taken after the drain
remove_media_result(exceeded) == ~exceeded

\* lines 267-274, and flow_cycle lines 216-218
RemovePost ==
    /\ pc = "rm_post"
    /\ \E s \in BOOLEAN :
          /\ ReadWaterLevel(s)
          /\ IF remove_media_result(s)
             THEN /\ UNCHANGED errVars
                  /\ pc' = "am_on"
             ELSE /\ set_error_state(ErrAfterRemoval)
                  /\ pc' = "rest"
    /\ UNCHANGED <<now, volume, totVars, next_cycle, reactor_volume, cdVars,
                   mcVars, inVars, outVars, peerVars, locVars>>
    /\ observers_notified' =
          ObserversAfter(
             IF pc' = "rest" THEN <<"notify", "set_error_state">>
             ELSE <<"notify">>,
             observers_notified)
    /\ UNCHANGED devVars
    /\ UNCHANGED tempVars

\* _add_media, lines 284-286
AddOn ==
    /\ pc = "am_on"
    /\ start_time' = get_inlet_ontime
    /\ cd_state' = "fill"
    /\ turn_on_inlet
    /\ wl_seen' = FALSE
    /\ pc' = "am_loop"
    /\ UNCHANGED <<now, volume, siVars, cd_target, cd_inlet_ontime,
                   cd_outlet_ontime, mcVars, outVars, peerVars,
                   do_cycle_delay, org_runtime, calib_start_time>>
    /\ observers_notified' =
          ObserversAfter(
             <<"notify">>,
             observers_notified)
    /\ DeviceCalls(
          <<"turn_on_inlet">>)
    /\ UNCHANGED tempVars

\* lines 288-292
AddPoll ==
    /\ pc = "am_loop"
    /\ IF Before(get_inlet_ontime - start_time, flow_per_cycle,
                 MEDIA_OUT_FLOWRATE)
       THEN \E s \in BOOLEAN :
              /\ ReadWaterLevel(s)
              /\ wl_seen' = s
              /\ pc' = IF s THEN "am_off" ELSE "am_loop"
              /\ cd_inlet_ontime' =
                    IF s THEN cd_inlet_ontime
                    ELSE get_inlet_ontime - start_time
       ELSE /\ pc' = "am_off"
            /\ UNCHANGED <<water_level_exceeded, wl_seen, cd_inlet_ontime>>
    /\ UNCHANGED <<now, volume, errVars, totVars, next_cycle, reactor_volume,
                   cd_target, cd_outlet_ontime, cd_state, mcVars, inVars,
                   outVars, peerVars, do_cycle_delay, start_time, org_runtime,
                   calib_start_time>>
    /\ observers_notified' =
          ObserversAfter(
             IF pc' = "am_loop" THEN <<"notify", "notify_observers">>
             ELSE IF wl_seen' THEN <<"notify">> ELSE <<>>,
             observers_notified)
    /\ UNCHANGED devVars
    /\ UNCHANGED tempVars

\* lines 294-315
AddOff ==
    /\ pc = "am_off"
    /\ turn_off_inlet
    /\ cd_inlet_ontime' = media_in_pump_ontime' - start_time
    /\ cd_state' = IF Before(cd_inlet_ontime', flow_per_cycle,
                             MEDIA_OUT_FLOWRATE)
                   THEN "over" ELSE "under"
    /\ pc' = "cal_on"
    /\ UNCHANGED <<now, volume, siVars, cd_target, cd_outlet_ontime, mcVars,
                   outVars, peerVars, locVars>>
    /\ observers_notified' =
          ObserversAfter(
             <<"notify", "notify_observers">>,
             observers_notified)
    /\ DeviceCalls(
          <<"turn_off_inlet">>)
    /\ UNCHANGED tempVars

\* _calibrate, lines 326-330
CalibOn ==
    /\ pc = "cal_on"
    /\ cd_state' = "calib"
    /\ org_runtime' = cd_inlet_ontime
    /\ calib_start_time' = get_inlet_ontime
    /\ turn_on_inlet
    /\ wl_seen' = FALSE
    /\ pc' = "cal_loop"
    /\ UNCHANGED <<now, volume, siVars, cd_target, cd_inlet_ontime,
                   cd_outlet_ontime, mcVars, outVars, peerVars,
                   do_cycle_delay, start_time>>
    /\ observers_notified' =
          ObserversAfter(
             <<"notify">>,
             observers_notified)
    /\ DeviceCalls(
          <<"turn_on_inlet">>)
    /\ UNCHANGED tempVars

\* the record's on-time restarted from the calibration's own run time
MutCalibOntime(elapsed, org) == elapsed
\* line 335: the record's inlet on-time during calibration
calib_ontime(elapsed, org) == elapsed + org

\* lines 332-337
CalibPoll ==
    /\ pc = "cal_loop"
    /\ IF Before(get_inlet_ontime - calib_start_time, flow_per_cycle,
                 MEDIA_IN_FLOWRATE)
       THEN \E s \in BOOLEAN :
              /\ ReadWaterLevel(s)
              /\ wl_seen' = s
              /\ pc' = IF s THEN "cal_off" ELSE "cal_loop"
              /\ cd_inlet_ontime' =
                    IF s THEN cd_inlet_ontime
                    ELSE calib_ontime(get_inlet_ontime - calib_start_time,
                                      org_runtime)
       ELSE /\ pc' = "cal_off"
            /\ UNCHANGED <<water_level_exceeded, wl_seen, cd_inlet_ontime>>
    /\ UNCHANGED <<now, volume, errVars, totVars, next_cycle, reactor_volume,
                   cd_target, cd_outlet_ontime, cd_state, mcVars, inVars,
                   outVars, peerVars, do_cycle_delay, start_time, org_runtime,
                   calib_start_time>>
    /\ observers_notified' =
          ObserversAfter(
             IF pc' = "cal_loop" THEN <<"notify", "notify_observers">>
             ELSE IF wl_seen' THEN <<"notify">> ELSE <<>>,
             observers_notified)
    /\ UNCHANGED devVars
    /\ UNCHANGED tempVars

\* lines 339-362
CalibOff ==
    /\ pc = "cal_off"
    /\ turn_off_inlet
    /\ LET rt == media_in_pump_ontime' - calib_start_time
       IN  IF Before(rt, flow_per_cycle, MEDIA_IN_FLOWRATE)
           THEN /\ cd_state' = "done"
                /\ UNCHANGED errVars
                /\ pc' = "cc_fold"
           ELSE /\ cd_state' = "error"
                /\ set_error_state(ErrCalib)
                /\ pc' = "rest"
    /\ UNCHANGED <<now, volume, totVars, next_cycle, reactor_volume,
                   water_level_exceeded, cd_target, cd_inlet_ontime,
                   cd_outlet_ontime, mcVars, outVars, peerVars, locVars>>
    /\ observers_notified' =
          ObserversAfter(
             IF pc' = "rest" THEN <<"notify", "set_error_state">>
             ELSE <<"notify", "notify_observers">>,
             observers_notified)
    /\ DeviceCalls(
          <<"turn_off_inlet">>)
    /\ UNCHANGED tempVars

\* cycle_check, lines 179-181
CycleFold ==
    /\ pc = "cc_fold"
    /\ cd_state = "done"
    /\ UpdateDispensedVolumes
    /\ system_state' = end_media_cycle(system_state)
    /\ pc' = "rest"
    /\ UNCHANGED <<now, volume, error_description, error_time, next_cycle,
                   reactor_volume, water_level_exceeded, cd_target,
                   cd_inlet_ontime, cd_outlet_ontime, mcVars, inVars, outVars,
                   peerVars, locVars>>
    /\ observers_notified' =
          ObserversAfter(
             <<"update_dispensed_volumes", "end_media_cycle">>,
             observers_notified)
    /\ UNCHANGED devVars
    /\ UNCHANGED tempVars

(* ---- the rest of main's loop ------------------------------------------ *)
\* SensorManager.update_readings
UpdateReadings ==
    /\ pc = "rest"
    /\ \E s \in BOOLEAN : ReadWaterLevel(s)
    /\ pc' = "temp"
    /\ UNCHANGED <<now, volume, errVars, totVars, next_cycle, reactor_volume,
                   cdVars, mcVars, inVars, outVars, peerVars, locVars>>
    /\ observers_notified' =
          ObserversAfter(
             <<"notify">>,
             observers_notified)
    /\ UNCHANGED devVars
    /\ UNCHANGED tempVars

ErrOverheat == "System Overheated"
\* a temperature reading, against TARGET_TEMP and SHUTDOWN_TEMP
TempLevels == {"below_target", "above_target", "above_shutdown"}

\* ThermalRegulationController.regulate_temp, with failsafe
RegulateTemp ==
    /\ pc = "temp"
    /\ \E working \in BOOLEAN, t1 \in TempLevels, t2 \in TempLevels :
          IF ~heating_enabled
          THEN /\ hotplate_on' = TRUE
               /\ DeviceCalls(IF hotplate_on THEN <<>>
                              ELSE <<"turn_on_hotplate">>)
               /\ UNCHANGED errVars
               /\ observers_notified' =
                     ObserversAfter(IF hotplate_on THEN <<>> ELSE <<"notify">>,
                                    observers_notified)
          ELSE IF ~working
          THEN /\ UNCHANGED errVars
               /\ DeviceCalls(
                     (IF hotplate_on THEN <<"turn_off_hotplate">> ELSE <<>>)
                     \o (IF system_state # "error" /\ t2 = "below_target"
                         THEN <<"turn_on_hotplate">> ELSE <<>>))
               /\ observers_notified' =
                     ObserversAfter(
                        IF ~hotplate_on /\ system_state = "error" THEN <<>>
                        ELSE <<"notify">>,
                        observers_notified)
               /\ hotplate_on' =
                     IF system_state = "error" THEN FALSE
                     ELSE (t2 = "below_target")
          ELSE LET overheat == t1 = "above_shutdown"
                   h1 == IF overheat \/ system_state = "error" THEN FALSE
                         ELSE hotplate_on
               IN  /\ IF overheat THEN set_error_state(ErrOverheat)
                      ELSE UNCHANGED errVars
                   /\ observers_notified' =
                         ObserversAfter(
                            IF overheat THEN <<"notify", "set_error_state">>
                            ELSE <<"notify">>,
                            observers_notified)
                   /\ hotplate_on' =
                         IF system_state' = "error" THEN h1
                         ELSE (t2 = "below_target")
                   /\ DeviceCalls(
                         (IF overheat \/ system_state = "error"
                          THEN <<"turn_off_hotplate">> ELSE <<>>)
                         \o (IF system_state' = "error" THEN <<>>
                             ELSE IF t2 # "below_target" /\ h1
                             THEN <<"turn_off_hotplate">>
                             ELSE IF t2 = "below_target" /\ ~h1
                             THEN <<"turn_on_hotplate">>
                             ELSE <<>>))
    /\ pc' = "air"
    /\ UNCHANGED <<now, volume, totVars, next_cycle, reactor_volume,
                   water_level_exceeded, cdVars, mcVars, inVars, outVars,
                   air_pump_on, heating_enabled, locVars>>
    /\ UNCHANGED tempVars

\* BubblerController.regulate_airflow
RegulateAirflow ==
    /\ pc = "air"
    /\ IF system_state = "error"
       THEN UNCHANGED <<air_pump_on, observers_notified, devVars>>
       ELSE \E working \in BOOLEAN, swap \in BOOLEAN :
               LET a1 == IF ~working /\ heating_enabled THEN TRUE
                         ELSE air_pump_on
               IN  /\ air_pump_on' = IF swap THEN ~a1 ELSE a1
                   /\ DeviceCalls(
                         (IF a1 # air_pump_on THEN <<"turn_on_air_pump">>
                          ELSE <<>>)
                         \o (IF ~swap THEN <<>>
                             ELSE IF a1 THEN <<"turn_off_air_pump">>
                             ELSE <<"turn_on_air_pump">>))
                   /\ observers_notified' =
                         ObserversAfter(
                            IF swap \/ a1 # air_pump_on THEN <<"notify">>
                            ELSE <<>>,
                            observers_notified)
    /\ pc' = "main"
    /\ UNCHANGED <<now, volume, siVars, cdVars, mcVars, inVars, outVars,
                   hotplate_on, heating_enabled, locVars>>
    /\ UNCHANGED tempVars

\* every step of the driver thread
Steps ==
    \/ Ctor \/ FillCheck \/ FillBegin \/ FillOn \/ FillPoll \/ FillOff
    \/ FillDone \/ FillFold \/ CtorSched \/ BuildPeers
    \/ CheckMissed \/ CheckUnscheduled \/ CheckDue \/ CycleBegin
    \/ FlowStart \/ RemoveOn \/ RemovePoll \/ RemoveOff \/ RemovePost
    \/ AddOn \/ AddPoll \/ AddOff \/ CalibOn \/ CalibPoll \/ CalibOff
    \/ CycleFold
    \/ UpdateReadings \/ RegulateTemp \/ RegulateAirflow

Next == Tick \/ Steps

Spec == Init /\ [][Next]_vars

\* The driver thread keeps running and the clock keeps advancing (up to
\* the last tick of the model).
SpecLive == Init /\ [][Next]_vars /\ WF_vars(Tick) /\ WF_vars(Steps)

\* The clock of a prompt driver: main's loop does not sleep through a check
\* of a due cycle, so every due cycle is started at the first check after
\* its due time and the next check follows the cycle's return at once.
TickPrompt ==
    /\ ~(pc = "main" /\ scheduled /\ next_cycle_time < now)
    /\ Tick

NextPrompt == TickPrompt \/ Steps

SpecPrompt == Init /\ [][NextPrompt]_vars

\* A driver under the conditions of a well-behaved run.  The clock: a
\* cycle, from the switching on of the outlet pump, takes less than
\* time_between_cycles, and the calibration's pump is stopped by the sensor
\* before max_calib_time.
CyclePcs == {"rm_loop", "rm_off", "am_loop", "am_off", "cal_loop", "cal_off"}
CycleShort ==
    pc \in CyclePcs =>
        (now + 1) - media_out_pump_start_time < time_between_cycles
CalibInBound ==
    pc \in {"cal_loop", "cal_off"} =>
        Before((now + 1) - media_in_pump_start_time, flow_per_cycle,
               MEDIA_IN_FLOWRATE)
TickBehaved == TickPrompt /\ CycleShort /\ CalibInBound
\* The sensor: the level read after a drain is not exceeded, and no
\* calibration ends on its bound.
SensorBehaves ==
    /\ (pc = "rm_post" => ~water_level_exceeded')
    /\ (pc = "cal_off" => pc' # "rest")
StepsBehaved == Steps /\ SensorBehaves

NextBehaved == TickBehaved \/ StepsBehaved

SpecBehaved ==
    Init /\ [][NextBehaved]_vars /\ WF_vars(TickBehaved)
         /\ WF_vars(StepsBehaved)

(* ---- the Status Aggregator under sensor notifications ----------------- *)
\* The driver's actions above read the temperature as a level (TempLevels)
\* and leave the temperature statistics alone; SpecSensors follows the
\* statistics under any sequence of notifications of the two sensors.
TempReadings ==
    {INIT_MAX_TEMP - 1, INIT_MAX_TEMP, OFF_PI_DEFAULT_TEMP, TARGET_TEMP,
     SHUTDOWN_TEMP, SHUTDOWN_TEMP + 1, INIT_MIN_TEMP, INIT_MIN_TEMP + 1}

\* _notify_sensor without its update of _min_temp
MutNotifySensor(kind, reading, st) ==
    IF kind = "TemperatureSensor"
    THEN [st EXCEPT !.last = reading,
                    !.max = IF reading > st.max THEN reading ELSE st.max]
    ELSE [st EXCEPT !.wl = reading]
\* SystemInfoManager._notify_sensor on the fields it writes
notify_sensor(kind, reading, st) ==
    IF kind = "TemperatureSensor"
    THEN [st EXCEPT !.last = reading,
                    !.min = IF reading < st.min THEN reading ELSE st.min,
                    !.max = IF reading > st.max THEN reading ELSE st.max]
    ELSE [st EXCEPT !.wl = reading]

\* Sensor.get_reading -> notify_observers -> SystemInfoManager.notify
NotifySensor(kind, reading) ==
    LET st == notify_sensor(kind, reading,
                 [last |-> last_temp, min |-> min_temp, max |-> max_temp,
                  wl |-> water_level_exceeded])
    IN  /\ last_temp' = st.last
        /\ min_temp' = st.min
        /\ max_temp' = st.max
        /\ water_level_exceeded' = st.wl
        /\ temp_notified' = (temp_notified \/ kind = "TemperatureSensor")
        /\ observers_notified' = ObserversAfter(<<"notify">>, observers_notified)
        /\ UNCHANGED <<now, pc, volume, errVars, totVars, next_cycle,
                       reactor_volume, cdVars, mcVars, inVars, outVars,
                       peerVars, locVars, devVars>>
NotifyTemperature == \E r \in TempReadings : NotifySensor("TemperatureSensor", r)
NotifyWaterLevel == \E s \in BOOLEAN : NotifySensor("WaterLevelSensor", s)

NextSensors == NotifyTemperature \/ NotifyWaterLevel

SpecSensors == Init /\ [][NextSensors]_vars

(* ======================= the claims ==================================== *)
\* positions of the driver thread outside a cycle, after construction
CheckPcs == {"main", "cc_due", "rest", "temp", "air"}

\* C1: once the system mode is 'error' it is 'error' in every later state.
C1_ErrorAbsorbing ==
    [][system_state = "error" => system_state' = "error"]_vars

\* C2: while the mode is 'error', no step changes error_description or
\* error_time (the first fault's values are kept).
C2_FirstFaultWins ==
    [][system_state = "error" =>
          /\ error_description' = error_description
          /\ error_time' = error_time]_vars

\* C3: begin_media_cycle / end_media_cycle leave the mode alone in 'error';
\* otherwise they set it to 'media_exchange' / 'standby'.
C3_BeginEndGuarded ==
    [][/\ (pc \in {"fr_begin", "cc_begin"} /\ pc' # pc =>
             system_state' = IF system_state = "error" THEN "error"
                             ELSE "media_exchange")
       /\ (pc \in {"fr_fold", "cc_fold"} /\ pc' # pc =>
             system_state' = IF system_state = "error" THEN "error"
                             ELSE "standby")]_vars

\* C4: whenever the schedule exists (before and after every cycle_check),
\* next_cycle_time < next_next_cycle_time.
C4_ScheduleOrdered ==
    scheduled => next_cycle_time < next_next_cycle_time
\* a cycle_check has advanced the schedule and is about to start a cycle
C4_Witness == scheduled /\ pc = "cc_begin"

\* C5: a check made in standby with now > next_next_cycle_time sets the
\* mode to 'error'; from then on the mode stays 'error' and no check
\* starts a cycle.
C5_MissedDeadline ==
    [][/\ (/\ pc = "main" /\ pc' = "cc_due"
           /\ system_state = "standby"
           /\ next_next_cycle_time < now
           => system_state' = "error" /\ error_description' = ErrMissed)
       /\ (pc \in CheckPcs /\ system_state = "error" =>
             /\ system_state' = "error"
             /\ pc' \in CheckPcs \cup {"crashed"})]_vars
\* a check that raised the missed-deadline fault has returned
C5_Witness ==
    /\ pc = "rest"
    /\ system_state = "error"
    /\ error_description = ErrMissed
    /\ cd_state = "start"

\* C6: when flow_cycle has returned True the Cycle Record is 'done', and
\* the fold adds exactly rate * on-time of the record to each total.
C6_FoldExact ==
    /\ [](pc = "cc_fold" => cd_state = "done")
    /\ [][pc = "cc_fold" /\ pc' # "cc_fold" =>
            /\ total_media_in' =
                  total_media_in + MEDIA_IN_FLOWRATE * cd_inlet_ontime
            /\ total_media_out' =
                  total_media_out + MEDIA_OUT_FLOWRATE * cd_outlet_ontime]_vars
\* a cycle that moved media both ways has been folded
C6_Witness ==
    /\ pc = "rest"
    /\ cd_state = "inactive"
    /\ total_media_in > 0
    /\ total_media_out > 0

\* C7: FILL ends in 'over' if the sensor was read as triggered before the
\* on-time reached target_ontime, and in 'under' otherwise.
C7_OverIffTriggered ==
    [][pc = "am_off" /\ pc' = "cal_on" =>
          cd_state' = IF wl_seen THEN "over" ELSE "under"]_vars

\* C8: CALIB ends in 'done' (cycle succeeds) if the sensor was read as
\* triggered before max_calib_time, and in 'error' with the system mode
\* 'error' otherwise.
C8_CalibOutcome ==
    [][pc = "cal_off" /\ pc' # "cal_off" =>
          IF wl_seen
          THEN cd_state' = "done" /\ pc' = "cc_fold"
               /\ system_state' = system_state
          ELSE cd_state' = "error" /\ pc' = "rest"
               /\ system_state' = "error"]_vars

\* C9: a level read as exceeded right after the drain sets the mode to
\* 'error', ends the cycle as failed with the record still 'drain', the
\* inlet pump never turned on and the totals unchanged, then and later.
C9_DrainFault ==
    [][/\ (pc = "rm_post" /\ pc' # "rm_post" /\ water_level_exceeded' =>
             /\ system_state' = "error"
             /\ pc' = "rest"
             /\ cd_state' = "drain"
             /\ ~inlet_on'
             /\ media_in_pump_ontime' = media_in_pump_ontime
             /\ UNCHANGED totVars)
       /\ (cd_state = "drain" /\ system_state = "error" =>
             /\ cd_state' = "drain"
             /\ ~inlet_on'
             /\ UNCHANGED totVars)]_vars
\* a cycle has failed on the reading taken after its drain
C9_Witness ==
    /\ pc = "rest"
    /\ cd_state = "drain"
    /\ system_state = "error"
    /\ error_description = ErrAfterRemoval
    /\ media_out_pump_ontime > 0

\* C10: when a cycle has reached 'done', the record's inlet_ontime is the
\* inlet pump's on-time over FILL plus its on-time over CALIB.
C10_InletOntimeTotal ==
    pc = "cc_fold" =>
        cd_inlet_ontime =
            org_runtime + (media_in_pump_ontime - calib_start_time)

\* C11: a fill procedure that found the sensor already triggered at its
\* start reports the anomaly, goes on to fill, and has left the mode
\* 'error' with the fill-ceiling description when it returns.
C11_FillAnomalyEndsInError ==
    /\ (pc \in {"fr_begin", "fr_on"} /\ water_level_exceeded =>
          error_description = ErrAtSensor)
    /\ (pc \in {"ctor_sched", "build"} /\ ~scheduled /\ error_time # None =>
          /\ system_state = "error"
          /\ error_description = ErrVesselFilled)

\* C12: the fill procedure ends in the fill-ceiling fault, with no volume
\* returned, exactly when its loop ended with the sensor not read as
\* triggered (the on-time had reached the ceiling, equality included).
C12_FillFatalIffCeiling ==
    [][pc = "fr_off" /\ pc' # "fr_off" =>
          IF wl_seen
          THEN pc' = "fr_done" /\ UNCHANGED errVars
          ELSE /\ pc' = "build"
               /\ system_state' = "error"
               /\ error_description' = ErrVesselFilled]_vars

\* C13: with a prompt driver no check raises the missed-deadline fault, so
\* a cycle that runs longer than time_between_cycles does not cause it.
C13_NoFaultWhenPrompt ==
    [][pc = "main" /\ pc' = "cc_due" /\ system_state = "standby" =>
          system_state' = "standby"]_vars

\* C13, amended: a check raises the missed-deadline fault exactly when it
\* is made after next_next_cycle_time; a cycle that ran longer than
\* time_between_cycles and returned by then causes no fault.
C13_FaultIffPastSecondDue ==
    [][pc = "main" /\ pc' = "cc_due" =>
          IF next_next_cycle_time < now
          THEN system_state' = "error" /\ error_description' = ErrMissed
          ELSE UNCHANGED errVars]_vars
\* a prompt driver's cycle ran longer than the interval and the check that
\* followed its return raised no fault
C13_Witness ==
    /\ pc = "cc_due"
    /\ system_state = "standby"
    /\ cd_state = "inactive"
    /\ media_out_pump_ontime > 0
    /\ now - media_out_pump_start_time > time_between_cycles
    /\ now <= next_next_cycle_time

\* C14: once a fault has been reported through set_error_state (error_time
\* is set), no step turns the inlet or the outlet pump on and no step
\* starts a cycle.
C14_NoActuationAfterFault ==
    [][error_time # None =>
          /\ (inlet_on' => inlet_on)
          /\ (outlet_on' => outlet_on)
          /\ (pc' = "fc_start" => pc = "fc_start")]_vars

\* C15: every mutating call on the SystemInfoManager ends by notifying the
\* observers, so after every step the observers have been notified of the
\* latest mutation.
C15_ObserversNotified == observers_notified

\* C16: in every state the error fields are set (error_time is not None and
\* error_description is not the initial text) exactly when the mode is
\* 'error'.
C16_ErrorFieldsIffError ==
    (error_time # None /\ error_description # NoError)
        <=> system_state = "error"

\* C17: when cycle_check returns and when the controller's constructor
\* returns the mode is 'standby' or 'error', never 'media_exchange': a
\* completed cycle or fill has set it to 'standby', a failed one to 'error'.
C17_ModeAtReturn ==
    /\ [](pc \in {"rest", "build"} =>
            /\ system_state \in {"standby", "error"}
            /\ (cd_state \in {"drain", "error"} => system_state = "error")
            /\ (pc = "build" /\ ~scheduled => system_state = "error"))
    /\ [][(pc \in {"cc_fold", "fr_fold"} /\ pc' # pc) =>
              (system_state' = "standby")]_vars
\* a cycle_check has returned from a cycle that completed
C17_Witness ==
    /\ pc = "rest"
    /\ system_state = "standby"
    /\ cd_state = "inactive"
    /\ cd_target = flow_per_cycle
    /\ media_out_pump_ontime > 0

\* positions of the driver thread inside a cycle_check
InCheckPcs == {"cc_due", "cc_begin", "fc_start", "rm_on", "rm_loop", "rm_off",
               "rm_post", "am_on", "am_loop", "am_off", "cal_on", "cal_loop",
               "cal_off", "cc_fold"}
\* the clock of the model can reach the tick at which a pump switched on at
\* `since` has run for vol / rate
ClockReaches(since, vol, rate) == (MaxTime - since) * rate >= vol

\* each polling loop, at a time from which the clock can reach its bound
InDrainLoop ==
    /\ pc = "rm_loop"
    /\ ClockReaches(media_out_pump_start_time, flow_per_cycle,
                    MEDIA_OUT_FLOWRATE)
InAddLoop ==
    /\ pc = "am_loop"
    /\ ClockReaches(media_in_pump_start_time, flow_per_cycle,
                    MEDIA_OUT_FLOWRATE)
InCalibLoop ==
    /\ pc = "cal_loop"
    /\ ClockReaches(media_in_pump_start_time, flow_per_cycle,
                    MEDIA_IN_FLOWRATE)
InFillLoop ==
    /\ pc = "fr_loop"
    /\ ClockReaches(media_in_pump_start_time, REACTOR_MAX_VOLUME,
                    MEDIA_IN_FLOWRATE)
InCheck == pc \in InCheckPcs
CheckReturned == pc = "rest" \/ now = MaxTime

NormalPhaseSteps ==
    {<<"start", "drain">>, <<"drain", "fill">>, <<"fill", "over">>,
     <<"fill", "under">>, <<"over", "calib">>, <<"under", "calib">>,
     <<"calib", "done">>, <<"calib", "error">>, <<"done", "inactive">>}

\* C19: within a cycle_check the Cycle Record's phase changes only by
\* construction of a new record ('start') and along start -> drain -> fill
\* -> (over | under) -> calib -> (done | error), done -> inactive at the
\* fold; 'fill' is entered only with the level read as not exceeded after
\* the drain.
C19_PhaseOrder ==
    [][(pc \in InCheckPcs /\ cd_state' # cd_state) =>
          IF pc = "cc_begin" THEN cd_state' = "start"
          ELSE /\ <<cd_state, cd_state'>> \in NormalPhaseSteps
               /\ (cd_state' = "fill" => ~water_level_exceeded)]_vars
\* a cycle has gone through every phase up to 'done'
C19_Witness ==
    /\ pc = "cc_fold"
    /\ cd_state = "done"
    /\ cd_outlet_ontime > 0
    /\ cd_inlet_ontime > 0

\* C20: from the construction of a Cycle Record until it is folded or has
\* failed, no step decreases its inlet_ontime or its outlet_ontime, the
\* steps from FILL into CALIB included.
C20_OntimesMonotone ==
    [][(pc \notin {"cc_begin", "fr_begin"}) =>
          /\ cd_inlet_ontime' >= cd_inlet_ontime
          /\ cd_outlet_ontime' >= cd_outlet_ontime]_vars
\* calibration has added to the inlet on-time that FILL left in the record
C20_Witness ==
    /\ pc = "cal_loop"
    /\ org_runtime > 0
    /\ cd_inlet_ontime > org_runtime
    /\ cd_outlet_ontime > 0

\* C21: the driver's DeviceManager calls never take the timed path of
\* Device.on / Device.off, so no background thread is ever started: the
\* driver thread, whose steps are the actions of Next, is the only one
\* that mutates the Status Aggregator and the Cycle Record.
C21_NoTimedSwitching == timed_threads = 0
\* the outlet pump and the air pump were switched on for a drain
C21_Witness ==
    /\ pc = "rm_loop"
    /\ active_devices = <<"media_out_pump", "air_pump">>
    /\ outlet_on
    /\ timed_threads = 0

\* C24: a cycle_check made in mode 'error' with now > next_cycle_time
\* advances both due times by one interval and publishes the new due
\* time, starts no cycle, and leaves the Cycle Record, the totals and
\* every device as they were.
C24_ErrorCheckAdvancesOnly ==
    [][/\ ((pc = "main" /\ pc' = "cc_due" /\ system_state = "error") =>
             UNCHANGED <<cdVars, totVars, mcVars, next_cycle, inlet_on,
                         outlet_on, air_pump_on, hotplate_on>>)
       /\ ((pc = "cc_due" /\ system_state = "error"
              /\ next_cycle_time < now) =>
             /\ next_cycle_time' = next_cycle_time + time_between_cycles
             /\ next_next_cycle_time' =
                   next_next_cycle_time + time_between_cycles
             /\ next_cycle' = next_cycle_time'
             /\ pc' = "rest"
             /\ system_state' = "error"
             /\ UNCHANGED <<cdVars, totVars, inlet_on, outlet_on,
                            air_pump_on, hotplate_on>>)]_vars
\* a configured reactor entered 'error' before its first cycle, and a
\* check made in that mode has moved the first due time on
C24_Witness ==
    /\ pc = "rest"
    /\ system_state = "error"
    /\ cd_state = "start"
    /\ next_cycle = next_cycle_time
    /\ next_cycle_time > time_between_cycles + FIRST_CYCLE_DELAY

\* C25: after a fill procedure that ended in a fatal error, every
\* cycle_check completes without raising, starts no cycle and leaves the
\* mode 'error'.
C25_CheckAfterFailedFill ==
    [][(pc = "main" /\ ~scheduled /\ pc' # pc) =>
          (pc' = "cc_due" /\ system_state' = "error")]_vars

C27_AfterFill ==
    [][/\ ((pc = "ctor_sched" /\ pc' = "build"
              /\ cd_target = REACTOR_MAX_VOLUME) =>
             reactor_volume' = MEDIA_IN_FLOWRATE * cd_inlet_ontime)
       /\ ((pc = "cc_due" /\ pc' = "cc_begin"
              /\ cd_target = REACTOR_MAX_VOLUME) =>
             now > time_between_cycles + FIRST_CYCLE_DELAY)]_vars
\* the first cycle of a reactor that was filled is about to begin
C27_Witness ==
    /\ pc = "cc_begin"
    /\ cd_target = REACTOR_MAX_VOLUME
    /\ cd_state = "inactive"
    /\ reactor_volume = MEDIA_IN_FLOWRATE * cd_inlet_ontime
    /\ reactor_volume > 0
    /\ total_media_out = 0

\* C28: the Cycle Record's target volume changes only where a record is
\* constructed, so not between the start of a cycle and its end, and once
\* the constructor has set the schedule no step changes
\* time_between_cycles or flow_per_cycle.
C28_TargetAndRateFixed ==
    [][/\ (pc \notin {"cc_begin", "fr_begin"} => cd_target' = cd_target)
       /\ (scheduled =>
             UNCHANGED <<time_between_cycles, flow_per_cycle>>)]_vars
\* a cycle has run from its start to 'done' with the target it was given
C28_Witness ==
    /\ pc = "cc_fold"
    /\ cd_state = "done"
    /\ cd_target = flow_per_cycle
    /\ cd_target > 0
    /\ time_between_cycles = TicksPerHour \div CYCLES_PER_HOUR

DeviceNames == {"hotplate", "media_in_pump", "media_out_pump", "air_pump"}
\* is_on() of a device, which its most recent notification reported
DeviceIsOn(device) ==
    CASE device = "hotplate" -> hotplate_on
      [] device = "media_in_pump" -> inlet_on
      [] device = "media_out_pump" -> outlet_on
      [] device = "air_pump" -> air_pump_on

ReturnPcs == {"rest", "cc_fold", "ctor_sched", "build"}

\* C30: whenever cycle_check, flow_cycle or the fill procedure has
\* returned, with success or with a failure, the inlet pump and the outlet
\* pump are off.
C30_PumpsOffAtReturn == pc \in ReturnPcs => ~inlet_on /\ ~outlet_on
\* a cycle_check has returned from a cycle whose calibration failed
C30_Witness ==
    /\ pc = "rest"
    /\ cd_state = "error"
    /\ system_state = "error"
    /\ media_in_pump_ontime > 0
    /\ ~inlet_on
    /\ ~outlet_on

\* C31: in no reachable state are the inlet pump and the outlet pump on
\* at the same time.
C31_PumpsExclusive == ~(inlet_on /\ outlet_on)
\* the inlet pump runs for the addition after the outlet pump has drained
C31_Witness ==
    /\ pc = "am_loop"
    /\ inlet_on
    /\ ~outlet_on
    /\ media_out_pump_ontime > 0
    /\ active_devices = <<"media_in_pump">>

\* C32: when the drain has completed, the Cycle Record's outlet_ontime is
\* the outlet pump's on-time over the drain and so at least target_ontime:
\* the recorded out-volume is at least the target volume, also when the
\* cycle is folded.
C32_DrainRecorded ==
    /\ (pc = "rm_post" =>
          /\ cd_outlet_ontime = media_out_pump_ontime - start_time
          /\ get_out_vol(cd_outlet_ontime) >= cd_target)
    /\ (pc = "cc_fold" => get_out_vol(cd_outlet_ontime) >= cd_target)

\* C33: update_dispensed_volumes never raises its ValueError: whenever
\* cycle_check or the fill procedure is about to call it, the Cycle
\* Record's phase is 'done'.
C33_FoldOnlyWhenDone ==
    pc \in {"cc_fold", "fr_fold"} => cd_state = "done"
\* the fill procedure is about to fold the media it added
C33_Witness ==
    /\ pc = "fr_fold"
    /\ cd_state = "done"
    /\ cd_inlet_ontime > 0
    /\ total_media_in = 0

\* C34: no step decreases total_media_in or total_media_out; they change
\* only at the fold of a cycle or of a fill whose record is 'done'; a
\* cycle that fails after its drain, at the level read after the drain or
\* at the calibration, returns with both totals as they were.
C34_TotalsOnlyAtFold ==
    [][/\ total_media_in' >= total_media_in
       /\ total_media_out' >= total_media_out
       /\ (totVars' # totVars =>
             pc \in {"cc_fold", "fr_fold"} /\ cd_state = "done")
       /\ ((pc \in {"rm_post", "cal_off"} /\ pc' = "rest") =>
             totVars' = totVars)]_vars
\* a first cycle drained and added media, failed at its calibration, and
\* the totals are still zero
C34_Witness ==
    /\ pc = "rest"
    /\ cd_state = "error"
    /\ error_description = ErrCalib
    /\ media_out_pump_ontime > 0
    /\ media_in_pump_ontime > 0
    /\ total_media_in = 0
    /\ total_media_out = 0

\* C35: a cycle_check made with now <= next_cycle_time changes nothing:
\* the schedule, the published due time, the mode and the error fields,
\* the Cycle Record, the totals and every device are after the check as
\* they were before it.
C35_EarlyCheckNoEffect ==
    [][(pc \in {"main", "cc_due"} /\ pc' # pc /\ scheduled
          /\ now <= next_cycle_time) =>
          /\ pc' \in {"cc_due", "rest"}
          /\ UNCHANGED <<mcVars, next_cycle, errVars, cdVars, totVars,
                         inVars, outVars, air_pump_on, hotplate_on,
                         active_devices>>]_vars
\* a check made at the very instant the cycle is due has returned
C35_Witness ==
    /\ pc = "rest"
    /\ scheduled
    /\ now = next_cycle_time
    /\ system_state = "standby"
    /\ cd_state = "start"

DueInStandby ==
    /\ pc = "main"
    /\ scheduled
    /\ next_cycle_time < now
    /\ system_state = "standby"
    /\ flow_per_cycle > 0
    /\ MEDIA_OUT_FLOWRATE * (time_between_cycles - 1) >= flow_per_cycle
    /\ now + time_between_cycles <= MaxTime
\* a cycle_check has returned from a cycle that was folded
FoldedInStandby ==
    /\ pc = "rest"
    /\ cd_state = "inactive"
    /\ system_state = "standby"

C38_OneIntervalPerCheck ==
    /\ [](scheduled =>
            next_next_cycle_time - next_cycle_time = time_between_cycles)
    /\ [][/\ (scheduled /\ next_cycle_time' # next_cycle_time =>
                /\ pc = "cc_due"
                /\ next_cycle_time' = next_cycle_time + time_between_cycles)
          /\ (pc' = "cc_begin" /\ pc # "cc_begin" => pc = "cc_due")
          /\ (pc = "cc_begin" /\ pc' # pc => pc' = "fc_start")]_vars
\* a late check has moved the schedule on by one interval and returned,
\* with the new due time already passed
C38_Witness ==
    /\ pc = "rest"
    /\ scheduled
    /\ next_cycle = next_cycle_time
    /\ next_cycle_time < now
    /\ error_description = ErrMissed

\* C39: once a temperature notification has been processed,
\* min_temp <= last_temp <= max_temp in every state; no notification raises
\* min_temp or lowers max_temp; a notification that changes the water
\* level leaves last_temp, min_temp and max_temp as they were.
C39_TempStats ==
    /\ [](temp_notified =>
            min_temp <= last_temp /\ last_temp <= max_temp)
    /\ [][/\ min_temp' <= min_temp
          /\ max_temp' >= max_temp
          /\ (water_level_exceeded' # water_level_exceeded =>
                UNCHANGED <<last_temp, min_temp, max_temp>>)]_vars
\* readings below and above the last one were seen, and the level changed
C39_Witness ==
    /\ temp_notified
    /\ min_temp < last_temp
    /\ last_temp < max_temp
    /\ max_temp > INIT_MIN_TEMP
    /\ water_level_exceeded

====
